---------------------------- MODULE Spec2Model ----------------------------
(***************************************************************************)
(* State-machine model of the two text-overlay scripts of the repository:  *)
(*   proxy4 : RetroTextGenerator   (Annotate_image.py)                     *)
(*   cpp26  : ArticleImageGenerator (annotate_image.py)                    *)
(* One run of main() is a sequence of steps; the imaging library's text    *)
(* measurement (textbbox) and its failures are inputs chosen with \E.      *)
(***************************************************************************)
EXTENDS Integers, Sequences, FiniteSets, TLC

VARIABLES
    script,       \* which script's main() runs
    pc,           \* position in main() / in the layout method
    inputExists,  \* os.path.exists(input_image)
    img,          \* self.img, as [mode, size]; NoImage before construction
    width,        \* self.width
    height,       \* self.height
    fonts,        \* what _load_fonts returned: "none" | "truetype" | "default"
    fontError,    \* TRUE once ImageFont.truetype raised inside _load_fonts
    measured,     \* set of <<text, tier, width>>: results of textbbox so far
    drawn,        \* sequence of text draws composited onto self.img
    current_y,    \* the layout method's local current_y
    out,          \* sequence of messages printed to standard output
    outfile,      \* the output file on disk, NoFile while not written
    i,            \* index of the running for loop (benefits, corner elements)
    raised,       \* kind of the exception in flight or handled, "none" if none
    exitStatus    \* -1 while main runs, then the process exit status

vars == <<script, pc, inputExists, img, width, height, fonts, fontError,
          measured, drawn, current_y, out, outfile, i, raised, exitStatus>>

---------------------------------------------------------------------------
(* Bounds of the model *)

\* width and height of the small canvas explored beside the 1024x768 one
SmallW == 201
SmallH == 151
\* how far past the canvas width the widest measured text reaches
MaxExcess == 1
\* number of method calls explored on a generator used as a library object
MaxCalls == 3

---------------------------------------------------------------------------
(* Program constants of RetroTextGenerator.generate_no_overlap_layout *)

Margin == 40
VerticalSections == 8
TitleLineGap == 60
SplitExtraGap == 20
SubtitleGap == 10
FeatureGap == 20
BenefitSpacing == 40
IndustryFromBottom == 60
CornerInset == 30
CornerRightInset == 150
\* pixel height of a line of ImageFont.load_default()
DefaultLineHeight == 11

Scripts == {"proxy4", "cpp26"}

Tiers == {"huge", "large", "medium", "small", "tiny"}

\* point size of each font tier (_load_fonts)
FontSize(t) ==
    CASE t = "huge"   -> 72
      [] t = "large"  -> 54
      [] t = "medium" -> 36
      [] t = "small"  -> 28
      [] t = "tiny"   -> 20

\* the next smaller tier in the order the point sizes give
NextSmaller(t) ==
    CHOOSE u \in Tiers :
        /\ FontSize(u) < FontSize(t)
        /\ \A v \in Tiers : FontSize(v) < FontSize(t) => FontSize(v) <= FontSize(u)

\* rendered line height of a tier under the loaded fonts
LineHeight(f, t) == IF f = "truetype" THEN FontSize(t) ELSE DefaultLineHeight

MainText == "MICROSOFT PROXY 4"
Line1Text == "MICROSOFT"
Line2Text == "PROXY 4"
SubText == "EMBEDDED TEMPLATE LIBRARY"
FeatureText == "ZERO-ALLOCATION POLYMORPHISM"
Benefits == << "40-60% FASTER CALLS", "ZERO HEAP ALLOCATION",
               "DETERMINISTIC TIMING", "SAFETY-CRITICAL READY" >>
IndustryText == "AEROSPACE * AUTOMOTIVE * MEDICAL * IoT"
CornerTexts == << "DO-178C", "ISO 26262", "pro::proxy<>", "etl::array<>" >>

\* tier each fitted label is first measured at
TitleTier == "huge"
SubtitleTier == "large"
FeatureTier == "medium"
\* tier used when the label is too wide
TitleSplitTierKeep == "huge"
TitleSplitTier == "large"
SubtitleFallbackTwoSteps == "small"
SubtitleFallbackTier == "medium"
FeatureFallbackTier == "small"
BenefitTier == "small"
IndustryTier == "small"
CornerTier == "tiny"

\* self.width - 2 * margin
Available(w) == w - 2 * Margin

\* the overflow test of the three fit branches
OverflowsInclusive(tw, w) == tw >= Available(w)
Overflows(tw, w) == tw > Available(w)

\* get_text_center_x, given the measured width; // is floor division
CenterXInsideMargins(w, tw) == (w - 2 * Margin - tw) \div 2
get_text_center_x(w, tw) == (w - tw) \div 2

\* section_height
SectionHeight(h) == (h - 2 * Margin) \div VerticalSections

\* vertical offset of the title's second line
SecondLineOffsetOneLine == FontSize(TitleSplitTier)
SecondLineOffset == TitleLineGap

\* corner_elements positions
CornerPos(k, w, h) ==
    CASE k = 1 -> <<CornerInset, CornerInset>>
      [] k = 2 -> <<w - CornerRightInset, CornerInset>>
      [] k = 3 -> <<CornerInset, h - CornerInset>>
      [] k = 4 -> <<w - CornerRightInset, h - CornerInset>>

---------------------------------------------------------------------------
(* The imaging library, as far as sizes and modes go *)

NoImage == [mode |-> "none", size |-> <<0, 0>>]
BadImage == [mode |-> "error", size |-> <<0, 0>>]
NoFile == [format |-> "none", size |-> <<0, 0>>]

\* Image.new(mode, size)
ImageNew(mode, size) == [mode |-> mode, size |-> size]

\* Image.alpha_composite(im1, im2): both RGBA and of one size, else ValueError
AlphaComposite(im1, im2) ==
    IF im1.mode = "RGBA" /\ im2.mode = "RGBA" /\ im1.size = im2.size
    THEN [mode |-> "RGBA", size |-> im1.size]
    ELSE BadImage

\* image.rotate(90, expand=True)
Rotate90Expand(im) == [mode |-> im.mode, size |-> <<im.size[2], im.size[1]>>]

\* a full-size transparent layer, drawn on and composited over self.img
\* (add_shadow_text composites two such layers, add_outlined_text one)
CompositeLayers(im, n) ==
    IF n = 2
    THEN AlphaComposite(AlphaComposite(im, ImageNew("RGBA", im.size)),
                        ImageNew("RGBA", im.size))
    ELSE AlphaComposite(im, ImageNew("RGBA", im.size))

add_outlined_text(im) == CompositeLayers(im, 1)
add_shadow_text(im) == CompositeLayers(im, 2)
add_text_with_glow(im, glow) == CompositeLayers(im, IF glow THEN 2 ELSE 1)
\* add_dark_panel: a panel layer of self.img.size, blurred, composited
add_dark_panel(im) == AlphaComposite(im, ImageNew("RGBA", im.size))
\* base.paste(im, position): in place, the size of base is kept
Paste(base, im) == base
\* the vertical text of create_article_header: a 200x30 image rotated and pasted
\* into a full-size layer, which is composited
add_vertical_text(im) ==
    AlphaComposite(im, Paste(ImageNew("RGBA", im.size),
                             Rotate90Expand(ImageNew("RGBA", <<200, 30>>))))

\* str.lower() of a file extension
Lower(ext) ==
    CASE ext = "JPG"  -> "jpg"
      [] ext = "JPEG" -> "jpeg"
      [] ext = "PNG"  -> "png"
      [] OTHER        -> ext

IsJpegPath(ext) == Lower(ext) \in {"jpg", "jpeg"}

\* save(): what is written for output extension ext
SaveImageTransposed(im, ext) ==
    IF IsJpegPath(ext)
    THEN [format |-> "JPEG", size |-> <<im.size[2], im.size[1]>>]
    ELSE [format |-> Lower(ext), size |-> im.size]
SaveImage(im, ext) ==
    IF IsJpegPath(ext)
    THEN LET rgb_img == ImageNew("RGB", im.size)
         IN  [format |-> "JPEG", size |-> rgb_img.size]
    ELSE [format |-> Lower(ext), size |-> im.size]

\* extension of the hardcoded output_image of both main()s
OutputExt == "jpg"

---------------------------------------------------------------------------
(* Inputs of a run *)

\* canvas sizes read from the source image
Canvases == { <<1024, 768>>, <<SmallW, SmallH>> }

\* widths textbbox may report for a label at the tier it is first measured at
FirstWidths(w) == { Available(w) - 1, Available(w), Available(w) + 1, 2 * w }
\* widths textbbox may report for any other text
OtherWidths(w) == { Available(w), w + MaxExcess }
\* nominal rendered width of a corner tag at the 'tiny' tier: about 12 pixels
\* a character for the 20 point face, 6 for the default bitmap face
TagWidth(f) == IF f = "truetype" THEN 120 ELSE 60

\* font metrics: a truetype face is no wider at a smaller size; the default
\* face is one face for every tier
SmallerTierWidthOk(f, wBig, wSmall) ==
    IF f = "truetype" THEN wSmall <= wBig ELSE wSmall = wBig

Draw(text, tier, x, y, w, style) ==
    [text |-> text, tier |-> tier, x |-> x, y |-> y, w |-> w, style |-> style]

---------------------------------------------------------------------------
(* main(): the steps shared by both scripts *)

\* the exception classes the top-level "except Exception" clause catches
TopHandlerCatchesOSErrorOnly(kind) == kind = "OSError"
TopHandlerCatches(kind) == kind \in {"OSError", "ValueError"}

\* whether main() returns right after reporting the missing input
ReturnsWhenMissingForgotten == FALSE
ReturnsWhenMissing == TRUE

\* the statement main() runs after the constructor: the layout method's first
\* section, generator.save(...) coming only after the layout method returns
LayoutEntrySkipped(s) == "save"
LayoutEntry(s) == IF s = "proxy4" THEN "title" ELSE "header_title"

\* an exception of class kind leaves the current step
Raise(kind) ==
    /\ raised' = kind
    /\ IF TopHandlerCatches(kind)
       THEN /\ pc' = "except"
            /\ exitStatus' = exitStatus
       ELSE /\ pc' = "done"
            /\ exitStatus' = 1

Init ==
    /\ script \in Scripts
    /\ pc = "start"
    /\ inputExists \in BOOLEAN
    /\ img = NoImage
    /\ width = 0
    /\ height = 0
    /\ fonts = "none"
    /\ fontError = FALSE
    /\ measured = {}
    /\ drawn = << >>
    /\ current_y = 0
    /\ out = << >>
    /\ outfile = NoFile
    /\ i = 0
    /\ raised = "none"
    /\ exitStatus = -1

\* if not os.path.exists(input_image): print(...); return
CheckInput ==
    /\ pc = "start"
    /\ IF inputExists
       THEN /\ out' = Append(out, "loading")
            /\ pc' = "construct"
            /\ exitStatus' = exitStatus
       ELSE IF ReturnsWhenMissing
            THEN /\ out' = out \o (IF script = "cpp26"
                                   THEN <<"not_found", "hint_save_input">>
                                   ELSE <<"not_found">>)
                 /\ pc' = "done"
                 /\ exitStatus' = 0
            ELSE /\ out' = out \o <<"not_found", "loading">>
                 /\ pc' = "construct"
                 /\ exitStatus' = exitStatus
    /\ UNCHANGED <<script, inputExists, img, width, height, fonts, fontError,
                   measured, drawn, current_y, outfile, i, raised>>

\* generator = <Class>(input_image): Image.open(...).convert('RGBA'), then
\* _load_fonts with its own fallback to the default face
Construct ==
    /\ pc = "construct"
    /\ \/ \* Image.open raises: no such file, or not an image
          /\ Raise("OSError")
          /\ UNCHANGED <<img, width, height, fonts, fontError, current_y>>
       \/ \* the image loads, ImageFont.load_default() raises
          /\ inputExists
          /\ \E c \in Canvases, te \in BOOLEAN :
                /\ img' = ImageNew("RGBA", c)
                /\ width' = c[1]
                /\ height' = c[2]
                /\ fontError' = te
          /\ Raise("OSError")
          /\ UNCHANGED <<fonts, current_y>>
       \/ \* the image loads, a font file is found and loads at all five sizes
          /\ inputExists
          /\ \E c \in Canvases :
                /\ img' = ImageNew("RGBA", c)
                /\ width' = c[1]
                /\ height' = c[2]
          /\ fonts' = "truetype"
          /\ pc' = LayoutEntry(script)
          /\ UNCHANGED <<fontError, current_y, raised, exitStatus>>
       \/ \* no font file, or ImageFont.truetype raises: the default face
          /\ inputExists
          /\ \E c \in Canvases, te \in BOOLEAN :
                /\ img' = ImageNew("RGBA", c)
                /\ width' = c[1]
                /\ height' = c[2]
                /\ fontError' = te
          /\ fonts' = "default"
          /\ pc' = LayoutEntry(script)
          /\ UNCHANGED <<current_y, raised, exitStatus>>
    /\ UNCHANGED <<script, inputExists, measured, drawn, out, outfile, i>>

\* a drawing step fails inside the imaging library
DrawFails ==
    /\ pc \in {"title", "subtitle", "feature", "benefits", "industry", "corners",
              "header_title", "header_feature", "header_vertical",
              "header_tag", "header_metrics"}
    /\ Raise("ValueError")
    /\ UNCHANGED <<script, inputExists, img, width, height, fonts, fontError,
                   measured, drawn, current_y, out, outfile, i>>

\* the image after a step's composites; a failed composite raises ValueError
Composited(newImg, nextPc) ==
    IF newImg = BadImage
    THEN /\ Raise("ValueError")
         /\ img' = img
    ELSE /\ img' = newImg
         /\ pc' = nextPc
         /\ UNCHANGED <<raised, exitStatus>>

\* generator.save(output_image)
Save ==
    /\ pc = "save"
    /\ \/ /\ Raise("OSError")
          /\ UNCHANGED outfile
       \/ /\ outfile' = SaveImage(img, OutputExt)
          /\ pc' = "saved"
          /\ UNCHANGED <<raised, exitStatus>>
    /\ UNCHANGED <<script, inputExists, img, width, height, fonts, fontError,
                   measured, drawn, current_y, out, i>>

\* print(f"Success! ..."), and main returns
PrintSuccess ==
    /\ pc = "saved"
    /\ out' = Append(out, "success")
    /\ pc' = "done"
    /\ exitStatus' = 0
    /\ UNCHANGED <<script, inputExists, img, width, height, fonts, fontError,
                   measured, drawn, current_y, outfile, i, raised>>

\* except Exception as e: print(f"Error processing image: {e}"), and main returns
Handler ==
    /\ pc = "except"
    /\ out' = out \o (IF script = "proxy4"
                      THEN <<"error_processing", "hint_install_pillow">>
                      ELSE <<"error_processing">>)
    /\ pc' = "done"
    /\ exitStatus' = 0
    /\ UNCHANGED <<script, inputExists, img, width, height, fonts, fontError,
                   measured, drawn, current_y, outfile, i, raised>>

---------------------------------------------------------------------------
(* RetroTextGenerator.generate_no_overlap_layout, section by section *)

\* 1. MAIN TITLE
LayoutTitle ==
    /\ pc = "title"
    /\ \E wm \in FirstWidths(width) :
          IF Overflows(wm, width)
          THEN \E w1 \in OtherWidths(width), w2 \in OtherWidths(width) :
                  /\ w1 <= wm
                  /\ w2 <= wm
                  /\ measured' = measured \cup
                        { <<MainText, TitleTier, wm>>,
                          <<Line1Text, TitleSplitTier, w1>>,
                          <<Line2Text, TitleSplitTier, w2>> }
                  /\ drawn' = drawn \o
                        << Draw(Line1Text, TitleSplitTier,
                                get_text_center_x(width, w1), Margin,
                                w1, "outlined"),
                           Draw(Line2Text, TitleSplitTier,
                                get_text_center_x(width, w2),
                                Margin + SecondLineOffset, w2, "outlined") >>
                  /\ current_y' = Margin + SectionHeight(height) * 2 + SplitExtraGap
          ELSE /\ measured' = measured \cup { <<MainText, TitleTier, wm>> }
               /\ drawn' = Append(drawn,
                                  Draw(MainText, TitleTier,
                                       get_text_center_x(width, wm), Margin,
                                       wm, "outlined"))
               /\ current_y' = Margin + SectionHeight(height) * 2
    /\ Composited(IF Len(drawn') = Len(drawn) + 2
                  THEN add_outlined_text(add_outlined_text(img))
                  ELSE add_outlined_text(img),
                  "subtitle")
    /\ UNCHANGED <<script, inputExists, width, height, fonts, fontError, out,
                   outfile, i>>

\* 2. SUBTITLE
LayoutSubtitle ==
    /\ pc = "subtitle"
    /\ \E wl \in FirstWidths(width) :
          IF Overflows(wl, width)
          THEN \E ws \in OtherWidths(width) \cup {wl} :
                  /\ SmallerTierWidthOk(fonts, wl, ws)
                  /\ measured' = measured \cup
                        { <<SubText, SubtitleTier, wl>>,
                          <<SubText, SubtitleFallbackTier, ws>> }
                  /\ drawn' = Append(drawn,
                                     Draw(SubText, SubtitleFallbackTier,
                                          get_text_center_x(width, ws), current_y,
                                          ws, "outlined"))
          ELSE /\ measured' = measured \cup { <<SubText, SubtitleTier, wl>> }
               /\ drawn' = Append(drawn,
                                  Draw(SubText, SubtitleTier,
                                       get_text_center_x(width, wl), current_y,
                                       wl, "outlined"))
    /\ current_y' = current_y + SectionHeight(height) + SubtitleGap
    /\ Composited(add_outlined_text(img), "feature")
    /\ UNCHANGED <<script, inputExists, width, height, fonts, fontError, out,
                   outfile, i>>

\* 3. FEATURE CALLOUT
LayoutFeature ==
    /\ pc = "feature"
    /\ \E wl \in FirstWidths(width) :
          IF Overflows(wl, width)
          THEN \E ws \in OtherWidths(width) \cup {wl} :
                  /\ SmallerTierWidthOk(fonts, wl, ws)
                  /\ measured' = measured \cup
                        { <<FeatureText, FeatureTier, wl>>,
                          <<FeatureText, FeatureFallbackTier, ws>> }
                  /\ drawn' = Append(drawn,
                                     Draw(FeatureText, FeatureFallbackTier,
                                          get_text_center_x(width, ws), current_y,
                                          ws, "shadow"))
          ELSE /\ measured' = measured \cup { <<FeatureText, FeatureTier, wl>> }
               /\ drawn' = Append(drawn,
                                  Draw(FeatureText, FeatureTier,
                                       get_text_center_x(width, wl), current_y,
                                       wl, "shadow"))
    /\ current_y' = current_y + SectionHeight(height) + FeatureGap
    /\ Composited(add_shadow_text(img), "benefits")
    /\ i' = 0
    /\ UNCHANGED <<script, inputExists, width, height, fonts, fontError, out,
                   outfile>>

\* 4. BENEFITS: one iteration of the for loop (i is enumerate's index)
LayoutBenefit ==
    /\ pc = "benefits"
    /\ i < Len(Benefits)
    /\ \E w \in OtherWidths(width) :
          /\ measured' = measured \cup { <<Benefits[i + 1], BenefitTier, w>> }
          /\ drawn' = Append(drawn,
                             Draw(Benefits[i + 1], BenefitTier,
                                  get_text_center_x(width, w),
                                  current_y + i * BenefitSpacing, w, "shadow"))
    /\ Composited(add_shadow_text(img),
                  IF i + 1 = Len(Benefits) THEN "industry" ELSE "benefits")
    /\ i' = i + 1
    /\ current_y' = IF i + 1 = Len(Benefits)
                    THEN current_y + SectionHeight(height) * 2
                    ELSE current_y
    /\ UNCHANGED <<script, inputExists, width, height, fonts, fontError, out,
                   outfile>>

\* 5. INDUSTRY TAGS
LayoutIndustry ==
    /\ pc = "industry"
    /\ \E w \in OtherWidths(width) :
          /\ measured' = measured \cup { <<IndustryText, IndustryTier, w>> }
          /\ drawn' = Append(drawn,
                             Draw(IndustryText, IndustryTier,
                                  get_text_center_x(width, w),
                                  height - IndustryFromBottom, w, "shadow"))
    /\ Composited(add_shadow_text(img), "corners")
    /\ i' = 0
    /\ UNCHANGED <<script, inputExists, width, height, fonts, fontError, out,
                   outfile, current_y>>

\* 6. CORNER ELEMENTS: one iteration of the for loop; the text is drawn at a
\* fixed position and never measured, w is the width it renders at
LayoutCorner ==
    /\ pc = "corners"
    /\ i < Len(CornerTexts)
    /\ drawn' = Append(drawn,
                       Draw(CornerTexts[i + 1], CornerTier,
                            CornerPos(i + 1, width, height)[1],
                            CornerPos(i + 1, width, height)[2],
                            TagWidth(fonts), "outlined"))
    /\ Composited(add_outlined_text(img),
                  IF i + 1 = Len(CornerTexts) THEN "save" ELSE "corners")
    /\ i' = i + 1
    /\ UNCHANGED <<script, inputExists, width, height, fonts, fontError, out,
                   outfile, current_y, measured>>

---------------------------------------------------------------------------
(* ArticleImageGenerator.create_article_header, block by block *)

HeaderDraw(text, tier, x, y) == Draw(text, tier, x, y, 0, "glow")

\* dark panel, the two title lines with glow, the subtitle
HeaderTitle ==
    /\ pc = "header_title"
    /\ drawn' = drawn \o
          << HeaderDraw("C++26 REFLECTION", "title", 40, 35),
             HeaderDraw("TRANSFORMS", "title", 40, 95),
             HeaderDraw("Automotive Code Generation", "subtitle", 40, 155) >>
    /\ Composited(add_text_with_glow(
                      add_text_with_glow(
                          add_text_with_glow(add_dark_panel(img), TRUE), TRUE),
                      FALSE),
                  "header_feature")
    /\ UNCHANGED <<script, inputExists, width, height, fonts, fontError, out,
                   outfile, current_y, measured, i>>

\* key feature panel, bottom left
HeaderFeature ==
    /\ pc = "header_feature"
    /\ drawn' = drawn \o
          << HeaderDraw("FROM HIGH-LEVEL C++", "accent", 35, height - 105),
             HeaderDraw("TO SAFETY-CERTIFIED C", "accent", 35, height - 75),
             HeaderDraw("AT COMPILE TIME", "accent", 35, height - 45) >>
    /\ Composited(add_text_with_glow(
                      add_text_with_glow(
                          add_text_with_glow(add_dark_panel(img), FALSE), FALSE),
                      FALSE),
                  "header_vertical")
    /\ UNCHANGED <<script, inputExists, width, height, fonts, fontError, out,
                   outfile, current_y, measured, i>>

\* rotated text on the far left edge
HeaderVertical ==
    /\ pc = "header_vertical"
    /\ drawn' = Append(drawn,
                       HeaderDraw("ISO 26262 COMPLIANT", "small",
                                  5, height \div 2 - 100))
    /\ Composited(add_vertical_text(img), "header_tag")
    /\ UNCHANGED <<script, inputExists, width, height, fonts, fontError, out,
                   outfile, current_y, measured, i>>

\* bottom right corner tag
HeaderTag ==
    /\ pc = "header_tag"
    /\ drawn' = Append(drawn,
                       HeaderDraw("DRAFT STANDARD 2025", "small",
                                  width - 520, height - 25))
    /\ Composited(add_text_with_glow(img, FALSE), "header_metrics")
    /\ UNCHANGED <<script, inputExists, width, height, fonts, fontError, out,
                   outfile, current_y, measured, i>>

\* top right performance metrics
HeaderMetrics ==
    /\ pc = "header_metrics"
    /\ drawn' = drawn \o
          << HeaderDraw("ZERO RUNTIME OVERHEAD", "small", width - 280, 30),
             HeaderDraw("100% COMPILE-TIME", "small", width - 280, 30 + 25),
             HeaderDraw("MISRA-C COMPLIANT OUTPUT", "small", width - 280, 30 + 50) >>
    /\ Composited(add_text_with_glow(
                      add_text_with_glow(
                          add_text_with_glow(add_dark_panel(img), FALSE), FALSE),
                      FALSE),
                  "save")
    /\ UNCHANGED <<script, inputExists, width, height, fonts, fontError, out,
                   outfile, current_y, measured, i>>

---------------------------------------------------------------------------
(* The run of main() *)

Next ==
    \/ CheckInput
    \/ Construct
    \/ LayoutTitle
    \/ LayoutSubtitle
    \/ LayoutFeature
    \/ LayoutBenefit
    \/ LayoutIndustry
    \/ LayoutCorner
    \/ HeaderTitle
    \/ HeaderFeature
    \/ HeaderVertical
    \/ HeaderTag
    \/ HeaderMetrics
    \/ DrawFails
    \/ Save
    \/ PrintSuccess
    \/ Handler

Spec == Init /\ [][Next]_vars

---------------------------------------------------------------------------
(* The generator classes used as library objects: any sequence of calls of *)
(* their drawing methods and of save() on a constructed generator          *)

ApiInit ==
    /\ script \in Scripts
    /\ pc = "api"
    /\ inputExists = TRUE
    /\ \E c \in Canvases :
          /\ img = ImageNew("RGBA", c)
          /\ width = c[1]
          /\ height = c[2]
    /\ fonts \in {"truetype", "default"}
    /\ fontError = FALSE
    /\ measured = {}
    /\ drawn = << >>
    /\ current_y = 0
    /\ out = << >>
    /\ outfile = NoFile
    /\ i = 0
    /\ raised = "none"
    /\ exitStatus = -1

\* positions a caller may pass: off the canvas on either side, or inside
ApiPositions == { <<0 - 5, 0 - 5>>, <<Margin, Margin>>, <<width, height>> }

ApiCall(newImg, text, tier, style) ==
    /\ pc = "api"
    /\ i < MaxCalls
    /\ \E pos \in ApiPositions :
          drawn' = Append(drawn, Draw(text, tier, pos[1], pos[2], 0, style))
    /\ Composited(newImg, "api")
    /\ i' = i + 1
    /\ UNCHANGED <<script, inputExists, width, height, fonts, fontError, out,
                   outfile, current_y, measured>>

ApiAddShadowText ==
    /\ script = "proxy4"
    /\ ApiCall(add_shadow_text(img), "text", "small", "shadow")

ApiAddOutlinedText ==
    /\ script = "proxy4"
    /\ ApiCall(add_outlined_text(img), "text", "large", "outlined")

ApiAddDarkPanel ==
    /\ script = "cpp26"
    /\ ApiCall(add_dark_panel(img), "", "none", "panel")

ApiAddTextWithGlow ==
    /\ script = "cpp26"
    /\ \E glow \in BOOLEAN :
          ApiCall(add_text_with_glow(img, glow), "text", "title",
                  IF glow THEN "glow" ELSE "plain")

\* save(output_path) with a path of any extension
ApiSave ==
    /\ pc = "api"
    /\ i < MaxCalls
    /\ \E ext \in {"jpg", "jpeg", "JPG", "png"} :
          outfile' = SaveImage(img, ext)
    /\ i' = i + 1
    /\ UNCHANGED <<script, pc, inputExists, img, width, height, fonts, fontError,
                   measured, drawn, current_y, out, raised, exitStatus>>

ApiNext ==
    \/ Next
    \/ ApiAddShadowText
    \/ ApiAddOutlinedText
    \/ ApiAddDarkPanel
    \/ ApiAddTextWithGlow
    \/ ApiSave

ApiSpec == (Init \/ ApiInit) /\ [][ApiNext]_vars

---------------------------------------------------------------------------
(* Properties *)

Printed(msg) == \E k \in DOMAIN out : out[k] = msg
DrawsOf(text) == { k \in DOMAIN drawn : drawn[k].text = text }
MeasuredAt(text, tier) == { m[3] : m \in { t \in measured : t[1] = text /\ t[2] = tier } }
Proxy4Layout == script = "proxy4" /\ pc # "api"
TitleDraws == DrawsOf(MainText) \cup DrawsOf(Line1Text) \cup DrawsOf(Line2Text)
FittedTexts == { MainText, Line1Text, Line2Text, SubText, FeatureText }
CenteredTexts ==
    FittedTexts \cup { Benefits[k] : k \in DOMAIN Benefits } \cup { IndustryText }
\* twice the distance of a draw's horizontal middle from the canvas's middle
CenterError2(d) == 2 * d.x + d.w - width

\* C1: every fitted label (main title, subtitle, feature callout) is finally
\* drawn with a measured width per line of at most canvas width - 2*40.
C1_FitContract ==
    Proxy4Layout =>
        \A k \in DOMAIN drawn :
            drawn[k].text \in FittedTexts => drawn[k].w <= width - 80

\* C2: a fitted label whose width measured at its requested tier is at most
\* canvas width - 2*40 is drawn exactly once, as one line, at that tier.
C2_FitsKeepsTier ==
    Proxy4Layout =>
        /\ \A w \in MeasuredAt("MICROSOFT PROXY 4", "huge") :
              w <= width - 80 =>
                  /\ Cardinality(TitleDraws) = 1
                  /\ \A k \in TitleDraws :
                        /\ drawn[k].text = "MICROSOFT PROXY 4"
                        /\ drawn[k].tier = "huge"
                        /\ drawn[k].w = w
        /\ \A w \in MeasuredAt("EMBEDDED TEMPLATE LIBRARY", "large") :
              w <= width - 80 =>
                  /\ Cardinality(DrawsOf(SubText)) = 1
                  /\ \A k \in DrawsOf(SubText) :
                        drawn[k].tier = "large" /\ drawn[k].w = w
        /\ \A w \in MeasuredAt("ZERO-ALLOCATION POLYMORPHISM", "medium") :
              w <= width - 80 =>
                  /\ Cardinality(DrawsOf(FeatureText)) = 1
                  /\ \A k \in DrawsOf(FeatureText) :
                        drawn[k].tier = "medium" /\ drawn[k].w = w

\* all three labels fit, the title exactly (its width equals the available width)
C2_Witness ==
    /\ Proxy4Layout
    /\ (width - 80) \in MeasuredAt(MainText, "huge")
    /\ \E k \in DrawsOf(MainText) : drawn[k].tier = "huge"
    /\ \E w \in MeasuredAt(SubText, "large") : w <= width - 80
    /\ \E k \in DrawsOf(SubText) : drawn[k].tier = "large"
    /\ \E w \in MeasuredAt(FeatureText, "medium") : w <= width - 80
    /\ \E k \in DrawsOf(FeatureText) : drawn[k].tier = "medium"

TitleOverflowed ==
    /\ Proxy4Layout
    /\ \E w \in MeasuredAt(MainText, "huge") : w > width - 80

\* the two lines of a split title: one draw of each, the second a fixed offset
\* below the first, each centred from its own width
SplitTitleLines(tier) ==
    /\ DrawsOf(MainText) = {}
    /\ Cardinality(DrawsOf(Line1Text)) = 1
    /\ Cardinality(DrawsOf(Line2Text)) = 1
    /\ \A a \in DrawsOf(Line1Text), b \in DrawsOf(Line2Text) :
          /\ drawn[a].tier = tier
          /\ drawn[b].tier = tier
          /\ drawn[a].y = 40
          /\ drawn[b].y = drawn[a].y + 60
          /\ drawn[a].w \in MeasuredAt(Line1Text, tier)
          /\ drawn[b].w \in MeasuredAt(Line2Text, tier)
          /\ CenterError2(drawn[a]) \in {0 - 1, 0}
          /\ CenterError2(drawn[b]) \in {0 - 1, 0}

\* C3 as stated: an overflowing main title becomes exactly two lines that keep
\* the requested tier 'huge', the second 60px below the first, each x from its
\* own measured width.
C3_SplitKeepsTier == TitleOverflowed => SplitTitleLines("huge")

\* C3 as amended: an overflowing main title becomes exactly two lines drawn one
\* tier below the requested one, at 'large', the second 60px below the first,
\* each x from its own width measured at 'large'.
C3_SplitAtLarge ==
    TitleOverflowed => NextSmaller("huge") = "large" /\ SplitTitleLines("large")

\* the title overflowed and its two lines have different widths
C3_Witness ==
    /\ TitleOverflowed
    /\ \E a \in DrawsOf(Line1Text), b \in DrawsOf(Line2Text) :
          drawn[a].w # drawn[b].w /\ drawn[a].x # drawn[b].x

\* label text with requested tier `req` overflowed there and was drawn once,
\* one tier down, without being measured at any tier below that
OneStepDown(text, req, fallback) ==
    (\E w \in MeasuredAt(text, req) : w > width - 80) =>
        /\ fallback = NextSmaller(req)
        /\ Cardinality(DrawsOf(text)) = 1
        /\ \A k \in DrawsOf(text) :
              /\ drawn[k].tier = fallback
              /\ drawn[k].w \in MeasuredAt(text, fallback)
        /\ \A t \in Tiers :
              FontSize(t) < FontSize(fallback) => MeasuredAt(text, t) = {}

\* C4: an overflowing label without split point (subtitle, feature callout) is
\* drawn once, as one line, exactly one tier down (large->medium,
\* medium->small); there is no second downgrade, also when it still overflows.
C4_SingleStepDowngrade ==
    Proxy4Layout =>
        /\ OneStepDown("EMBEDDED TEMPLATE LIBRARY", "large", "medium")
        /\ OneStepDown("ZERO-ALLOCATION POLYMORPHISM", "medium", "small")

\* the subtitle overflowed, went down one tier and still overflows there, and
\* the feature callout went down one tier too
C4_Witness ==
    /\ Proxy4Layout
    /\ \E w \in MeasuredAt(SubText, "large") : w > width - 80
    /\ \E k \in DrawsOf(SubText) :
          drawn[k].tier = "medium" /\ drawn[k].w > width - 80
    /\ \E w \in MeasuredAt(FeatureText, "medium") : w > width - 80
    /\ \E k \in DrawsOf(FeatureText) : drawn[k].tier = "small"

\* C5: every centred line (title lines, subtitle, feature, benefits, industry
\* line) has x + w/2 within less than one pixel of width/2, w being the width
\* measured for its text at the tier it is drawn with.
C5_CenteringExact ==
    Proxy4Layout =>
        \A k \in DOMAIN drawn :
            drawn[k].text \in CenteredTexts =>
                /\ drawn[k].w \in MeasuredAt(drawn[k].text, drawn[k].tier)
                /\ CenterError2(drawn[k]) > 0 - 2
                /\ CenterError2(drawn[k]) < 2

\* the whole layout is drawn, with a line wider than the canvas (negative x, odd
\* difference) and a line with an even difference
C5_Witness ==
    /\ Proxy4Layout
    /\ pc = "save"
    /\ \E k \in DOMAIN drawn :
          /\ drawn[k].text \in CenteredTexts
          /\ drawn[k].x < 0
          /\ (width - drawn[k].w) % 2 = 1
    /\ \E k \in DOMAIN drawn :
          /\ drawn[k].text = Benefits[4]
          /\ drawn[k].x > 0
          /\ (width - drawn[k].w) % 2 = 0

Scenario1024 ==
    /\ Proxy4Layout
    /\ width = 1024
    /\ height = 768
    /\ \E w \in MeasuredAt("MICROSOFT PROXY 4", "huge") : w > 944

\* C6: on a 1024x768 canvas with the title wider than 944px at 'huge', the
\* title is drawn as "MICROSOFT" at y = 40 and "PROXY 4" at y = 100, both at
\* 'large', each centred from its own width measured at 'large'.
C6_Scenario1024x768 ==
    Scenario1024 =>
        /\ Len(drawn) >= 2
        /\ drawn[1].text = "MICROSOFT"
        /\ drawn[2].text = "PROXY 4"
        /\ TitleDraws = {1, 2}
        /\ \A k \in {1, 2} :
              /\ drawn[k].tier = "large"
              /\ drawn[k].w \in MeasuredAt(drawn[k].text, "large")
              /\ drawn[k].x = (1024 - drawn[k].w) \div 2
        /\ drawn[1].y = 40
        /\ drawn[2].y = drawn[1].y + 60

\* the scenario happened and the whole run succeeded
C6_Witness ==
    /\ Scenario1024
    /\ Printed("success")
    /\ outfile.size = <<1024, 768>>

\* C7 as stated: once the input exists, any failure of a step, a font that
\* cannot be loaded included, ends in the top-level handler: the
\* "Error processing image" message is printed and the exit status is 0.
C7_AnyFailureReported ==
    (pc = "done" /\ inputExists /\ (raised # "none" \/ fontError)) =>
        /\ Printed("error_processing")
        /\ exitStatus = 0

\* C7 as amended: once the input exists, every exception that leaves a step
\* (loading the image, the default font, drawing, saving) is caught by the
\* top-level handler, "Error processing image" is printed once, "Success" is
\* not, and main returns with exit status 0 as a successful run does; a font
\* file that fails to load is handled inside _load_fonts by the default face and
\* by itself prints no error.
C7_EscapingFailureHandled ==
    (pc = "done" /\ inputExists) =>
        /\ exitStatus = 0
        /\ raised # "none" =>
              /\ Cardinality({ k \in DOMAIN out : out[k] = "error_processing" }) = 1
              /\ ~Printed("success")
        /\ raised = "none" =>
              /\ Printed("success")
              /\ ~Printed("error_processing")

\* a drawing step raised after part of the layout was drawn, and main returned
C7_Witness ==
    /\ pc = "done"
    /\ inputExists
    /\ raised = "ValueError"
    /\ Len(drawn) > 0
    /\ Printed("error_processing")
    /\ exitStatus = 0

\* C8: with no input file, "not found" is reported and the run ends: no
\* generator, no drawing, no output file, neither "Success" nor "Error
\* processing image".
C8_MissingInputAborts ==
    (~inputExists) =>
        /\ pc \in {"start", "done"}
        /\ img = NoImage
        /\ fonts = "none"
        /\ drawn = << >>
        /\ measured = {}
        /\ outfile = NoFile
        /\ ~Printed("success")
        /\ ~Printed("error_processing")
        /\ ~Printed("loading")
        /\ pc = "done" => out[1] = "not_found" /\ exitStatus = 0 /\ raised = "none"

\* the run without input file has ended
C8_Witness == ~inputExists /\ pc = "done" /\ Printed("not_found")

\* C9: self.img.size stays the (width, height) read at load time through every
\* drawing operation, and save() writes exactly those dimensions, on the JPEG
\* branch and on the other-format branch.
C9_CanvasSizeInvariant ==
    /\ img # NoImage => img.mode = "RGBA" /\ img.size = <<width, height>>
    /\ outfile # NoFile => outfile.size = <<width, height>>

\* a non-JPEG file was saved after drawing calls on a non-square canvas
C9_Witness ==
    /\ outfile.format = "png"
    /\ Len(drawn) >= 2
    /\ width # height

RectOf(d) ==
    [x0 |-> d.x, x1 |-> d.x + d.w, y0 |-> d.y, y1 |-> d.y + LineHeight(fonts, d.tier)]
Disjoint(a, b) ==
    \/ a.x1 <= b.x0
    \/ b.x1 <= a.x0
    \/ a.y1 <= b.y0
    \/ b.y1 <= a.y0

\* C10: the rectangles (x, y, measured width, line height of the drawn tier) of
\* any two labels drawn by generate_no_overlap_layout are disjoint.
C10_NoOverlap ==
    Proxy4Layout =>
        \A a \in DOMAIN drawn, b \in DOMAIN drawn :
            a < b => Disjoint(RectOf(drawn[a]), RectOf(drawn[b]))

\* every draw of the script's layout method has been made
LayoutDrawn ==
    IF script = "proxy4"
    THEN /\ TitleDraws # {}
         /\ DrawsOf(SubText) # {}
         /\ DrawsOf(FeatureText) # {}
         /\ \A k \in DOMAIN Benefits : DrawsOf(Benefits[k]) # {}
         /\ DrawsOf(IndustryText) # {}
         /\ \A k \in DOMAIN CornerTexts : DrawsOf(CornerTexts[k]) # {}
         /\ drawn[Len(drawn)].text = "etl::array<>"
    ELSE /\ Len(drawn) = 11
         /\ drawn[1].text = "C++26 REFLECTION"
         /\ drawn[Len(drawn)].text = "MISRA-C COMPLIANT OUTPUT"
TerminalMessages == { "not_found", "success", "error_processing" }
TerminalPrinted == { k \in DOMAIN out : out[k] \in TerminalMessages }

\* C11: in a run of main() the output file is written only after the whole
\* layout method returned without error (a failed load or drawing step leaves
\* no output file), "Success" is printed only after save() returned without
\* error, and a finished run has printed exactly one of the three terminal
\* messages (input not found, Success, Error processing image).
C11_EventOrder ==
    pc # "api" =>
        /\ outfile # NoFile =>
              /\ pc \in {"saved", "done"}
              /\ raised = "none"
              /\ img # NoImage
              /\ LayoutDrawn
        /\ raised # "none" => outfile = NoFile /\ ~Printed("success")
        /\ Printed("success") =>
              /\ outfile # NoFile
              /\ pc = "done"
              /\ out[Len(out)] = "success"
        /\ Cardinality(TerminalPrinted) <= 1
        /\ pc = "done" => Cardinality(TerminalPrinted) = 1
        /\ pc \notin {"done", "start"} => ~Printed("not_found") /\ ~Printed("success")

\* a run of the layout script that drew everything, saved and reported success
C11_Witness ==
    /\ pc = "done"
    /\ script = "proxy4"
    /\ Printed("success")
    /\ outfile.format = "JPEG"
    /\ LayoutDrawn
    /\ Cardinality(TerminalPrinted) = 1

=============================================================================
